---- MODULE Spec2Model ----
(***************************************************************************)
(* Compliance rule engine of ai-precheck                                   *)
(* (src/app/modules/compliance/engine.py, ComplianceRuleEngine).           *)
(*                                                                         *)
(* Two request handlers are modelled, each split at its single await:      *)
(*   analyze_site     fixed checklist of 8 sections, weighted score        *)
(*   analyze_dynamic  caller-supplied rules, condition mini-language       *)
(* and three groups of API handlers around them:                           *)
(*   /check-json      src/app/api/compliance/router.py                     *)
(*   /api/v1 check    src/app/api/v1/compliance_router.py, rate_limiter.py *)
(*   policies, widget src/app/api/v1/policies_router.py, widget_router.py  *)
(*                                                                         *)
(* Encodings                                                               *)
(*   Optional[str] / Optional[int]  <<>> is None, <<v>> is the value v     *)
(*   List[str]                      a sequence of strings                  *)
(*   display text (found_value,     a sequence of text chunks; for the     *)
(*     recommendation)              recommendation <<>> is None            *)
(*   text the engine inspects       a sequence of one-character strings    *)
(***************************************************************************)
EXTENDS Integers, Sequences, FiniteSets, TLC

VARIABLES
    pc,               \* position of the request: idle, awaiting, done, raised
    mode,             \* which handler runs: "none", "static" or "dynamic"
    extracted,        \* what the extraction collaborator returned
    rules,            \* analyze_dynamic's rule list
    section_results,  \* analyze_site's local: section id -> <<passed, total>>
    report,           \* the ComplianceReport returned, <<>> while there is none
    llm_calls,        \* calls of llm_client.extract_data made by this request
    llm_error,        \* whether the extraction call of this request raised
    json_request,     \* the /check-json request being served, <<>> if none
    json_response,    \* its response, <<>> while there is none
    compliance_reports, \* the table compliance_reports
    checks,           \* the /api/v1 check requests that have arrived
    today,            \* the current UTC day
    client_policies,  \* the table client_policies
    widgets,          \* the table widgets
    policy_seq,       \* number of policy ids generated so far
    widget_response   \* the last response of the widget policies endpoint

\* the variables of the engine
engine_vars == <<pc, mode, extracted, rules, section_results, report,
                 llm_calls, llm_error>>

\* the variables of the API handlers
api_vars == <<json_request, json_response, compliance_reports, checks, today,
              client_policies, widgets, policy_seq, widget_response>>

\* the variables of /check-json, of the /api/v1 check and of the policies
json_vars == <<json_request, json_response>>

rate_vars == <<compliance_reports, checks, today>>

policy_vars == <<client_policies, widgets, policy_seq, widget_response>>

vars == <<engine_vars, api_vars>>

\* no request has reached the API and its tables are empty
ApiIdle ==
    /\ json_request = <<>>
    /\ json_response = <<>>
    /\ compliance_reports = {}
    /\ checks = <<>>
    /\ today = 0
    /\ client_policies = {}
    /\ widgets = {}
    /\ policy_seq = 0
    /\ widget_response = <<>>

(***************************************************************************)
(* Bounds of the model                                                     *)
(***************************************************************************)
\* an extraction record differs from one of the baselines in at most this
\* many fields
MaxDeviations == 2

\* length of the generated needles and values of the dynamic rules
MaxTextLen == 2

\* length of the rule lists of analyze_dynamic
MaxRules == 3

\* the instants, in seconds, at which a report may be generated
MaxInstant == 2

\* number of /api/v1 check requests
MaxChecks == 2

\* the last UTC day; the first is 0
MaxDay == 1

\* number of policy ids generated
MaxPolicies == 2

\* highest version a policy is edited to
MaxVersion == 2

----------------------------------------------------------------------------
(***************************************************************************)
(* Python values                                                           *)
(***************************************************************************)
None == <<>>

Some(v) == <<v>>

\* the test `is not None` in place of the truth value
Truthy_not_none(o) == o # None

\* truth value of an Optional[str]: None and "" are falsy
Truthy(o) == o # None /\ o[1] # ""

\* the default taken for None only
OrElse_not_none(o, default) == IF o # None THEN o[1] ELSE default

\* `o or default` for an Optional[str]
OrElse(o, default) == IF Truthy(o) THEN o[1] ELSE default

RECURSIVE FormatInt(_)
\* str(n) of a non-negative int, as the chunks of its decimal digits
FormatInt(n) ==
    LET digit == <<"0", "1", "2", "3", "4", "5", "6", "7", "8", "9">>
    IN  IF n < 10 THEN <<digit[n + 1]>>
        ELSE FormatInt(n \div 10) \o <<digit[(n % 10) + 1]>>

RECURSIVE Join(_, _)
\* sep.join(list)
Join(sep, list) ==
    IF Len(list) = 0 THEN <<>>
    ELSE IF Len(list) = 1 THEN <<list[1]>>
    ELSE <<list[1], sep>> \o Join(sep, Tail(list))

----------------------------------------------------------------------------
(***************************************************************************)
(* SiteContentExtraction                                                   *)
(***************************************************************************)
StringFields ==
    {"company_name", "registration_number", "legal_address", "vat_number",
     "merchant_outlet_location", "license_number", "regulator_link",
     "support_email", "phone_number", "physical_address",
     "site_primary_language"}

BoolFields ==
    {"has_license_info", "has_contact_page", "has_terms_conditions",
     "has_privacy_policy", "has_refund_policy", "has_cancellation_policy",
     "has_payment_policy", "policies_accessible_from_all_pages",
     "policy_mentions_service_conditions",
     "policy_mentions_cancellation_terms", "policy_mentions_refund_terms",
     "policy_mentions_user_restrictions", "policy_mentions_company_name",
     "has_product_description", "prices_in_purchase_currency",
     "all_fees_disclosed", "transparent_purchase_process",
     "shows_final_price", "shows_merchant_location_at_checkout",
     "has_terms_agreement_checkbox", "has_receipt_info",
     "has_mobile_responsive"}

\* the fields whose absence is reported as fail
StrictFields ==
    {"company_name", "registration_number", "legal_address",
     "merchant_outlet_location", "support_email", "physical_address",
     "has_contact_page", "has_terms_conditions", "has_privacy_policy",
     "has_refund_policy", "has_cancellation_policy", "has_payment_policy",
     "has_product_description", "prices_in_purchase_currency",
     "shows_final_price", "has_terms_agreement_checkbox"}

\* the record of the schema's defaults: nothing found
SiteContentExtraction ==
    [company_name |-> None, registration_number |-> None,
     legal_address |-> None, vat_number |-> None,
     merchant_outlet_location |-> None, has_license_info |-> FALSE,
     license_number |-> None, regulator_link |-> None,
     support_email |-> None, phone_number |-> None,
     physical_address |-> None, has_contact_page |-> FALSE,
     has_terms_conditions |-> FALSE, has_privacy_policy |-> FALSE,
     has_refund_policy |-> FALSE, has_cancellation_policy |-> FALSE,
     has_payment_policy |-> FALSE,
     policies_accessible_from_all_pages |-> FALSE,
     policy_mentions_service_conditions |-> FALSE,
     policy_mentions_cancellation_terms |-> FALSE,
     policy_mentions_refund_terms |-> FALSE, refund_period_days |-> None,
     policy_mentions_user_restrictions |-> FALSE,
     policy_mentions_company_name |-> FALSE,
     site_primary_language |-> None, has_product_description |-> FALSE,
     prices_in_purchase_currency |-> FALSE, all_fees_disclosed |-> FALSE,
     transparent_purchase_process |-> FALSE, shows_final_price |-> FALSE,
     shows_merchant_location_at_checkout |-> FALSE,
     has_terms_agreement_checkbox |-> FALSE, has_receipt_info |-> FALSE,
     has_mobile_responsive |-> FALSE, payment_methods_mentioned |-> <<>>]

\* values the extraction collaborator may put in a field
FieldValues(f) ==
    IF f \in StringFields THEN {None, Some(""), Some("Acme Ltd")}
    ELSE IF f \in BoolFields THEN BOOLEAN
    ELSE IF f = "refund_period_days" THEN {None, Some(0), Some(13), Some(14)}
    ELSE {<<>>, <<"Visa", "PayPal">>}

\* the populated value of a field
Populated(f) ==
    IF f \in StringFields THEN Some("Acme Ltd")
    ELSE IF f \in BoolFields THEN TRUE
    ELSE IF f = "refund_period_days" THEN Some(14)
    ELSE <<"Visa", "PayPal">>

\* the record in which exactly the fields of the set fs are populated
PopulatedIn(fs) ==
    [f \in DOMAIN SiteContentExtraction |->
        IF f \in fs THEN Populated(f) ELSE SiteContentExtraction[f]]

\* baselines: nothing found, only the strict fields, only the soft fields,
\* everything found
Baselines ==
    {PopulatedIn({}), PopulatedIn(StrictFields),
     PopulatedIn((DOMAIN SiteContentExtraction) \ StrictFields),
     PopulatedIn(DOMAIN SiteContentExtraction)}

\* one field set to one of its values
Assignments ==
    UNION {{<<f, v>> : v \in FieldValues(f)} :
              f \in DOMAIN SiteContentExtraction}

RECURSIVE Deviations(_)
\* the records at most k assignments away from a baseline
Deviations(k) ==
    IF k = 0 THEN Baselines
    ELSE LET prev == Deviations(k - 1)
         IN  prev \cup {[r EXCEPT ![a[1]] = a[2]] :
                           r \in prev, a \in Assignments}

\* the extraction records the collaborator returns in this model
Records == Deviations(MaxDeviations)

----------------------------------------------------------------------------
(***************************************************************************)
(* ChecklistItem, and the eight section evaluators                         *)
(***************************************************************************)
ChecklistItem(section, item, rule_id, status, found_value, recommendation) ==
    [section |-> section, item |-> item, rule_id |-> rule_id,
     status |-> status, found_value |-> found_value,
     recommendation |-> recommendation]

\* a check on an Optional[str] field that takes the empty text as present
StrCheck_not_none(sec, item, rule_id, v, missing, rec) ==
    ChecklistItem(sec, item, rule_id,
                  IF v # None THEN "pass" ELSE missing,
                  <<OrElse(v, "Not found")>>,
                  IF v # None THEN None ELSE Some(rec))

\* a check on an Optional[str] field: found_value is the field's text
StrCheck(sec, item, rule_id, v, missing, rec) ==
    ChecklistItem(sec, item, rule_id,
                  IF Truthy(v) THEN "pass" ELSE missing,
                  <<OrElse(v, "Not found")>>,
                  IF Truthy(v) THEN None ELSE Some(rec))

\* a check on a flag: found_value is one of two fixed texts
FlagCheck(sec, item, rule_id, v, missing, yes, no, rec) ==
    ChecklistItem(sec, item, rule_id,
                  IF v THEN "pass" ELSE missing,
                  <<IF v THEN yes ELSE no>>,
                  IF v THEN None ELSE Some(rec))

_check_section_1(d) ==
    LET sec == "1. Company Information"
    IN  << StrCheck(sec, "Legal company name", "CMP-001", d.company_name,
                    "fail", "Add full legal company name to the website."),
           StrCheck(sec, "Registration number", "CMP-002",
                    d.registration_number, "fail",
                    "Add company registration number."),
           StrCheck(sec, "Legal address", "CMP-003", d.legal_address,
                    "fail", "Add the registered legal address."),
           StrCheck(sec, "VAT number", "CMP-004", d.vat_number,
                    "warning", "Add VAT number if applicable."),
           StrCheck(sec, "Merchant Outlet Location", "CMP-005",
                    d.merchant_outlet_location, "fail",
                    "Add Merchant Outlet Location (physical place of business decisions)."),
           ChecklistItem(sec, "License information", "CMP-006",
                    IF d.has_license_info THEN "pass" ELSE "warning",
                    IF d.has_license_info
                    THEN <<"License: ", OrElse(d.license_number, "N/A"),
                           ", Regulator: ", OrElse(d.regulator_link, "N/A")>>
                    ELSE <<"Not found">>,
                    IF d.has_license_info THEN None
                    ELSE Some("Add licensing info if the business requires a license.")) >>

_check_section_2(d) ==
    LET sec == "2. Contacts"
    IN  << StrCheck(sec, "Support email", "CTC-001", d.support_email,
                    "fail", "Add a support email address."),
           StrCheck(sec, "Phone number", "CTC-002", d.phone_number,
                    "warning", "Consider adding a contact phone number."),
           StrCheck(sec, "Physical / mailing address", "CTC-003",
                    d.physical_address, "fail",
                    "Add a physical or mailing address."),
           FlagCheck(sec, "Contact Us page", "CTC-004", d.has_contact_page,
                    "fail", "Found", "Not found",
                    "Add a dedicated Contact Us page.") >>

\* the table of the policy-existence loop without the Terms & Conditions row
PolicyExistence_no_terms ==
    << <<"has_privacy_policy", "Privacy Policy", "POL-002">>,
       <<"has_refund_policy", "Refund / Return Policy", "POL-003">>,
       <<"has_cancellation_policy", "Cancellation Policy", "POL-004">>,
       <<"has_payment_policy", "Payment Policy", "POL-005">> >>

\* the (field, label, rule_id) table of the policy-existence loop
PolicyExistence ==
    << <<"has_terms_conditions", "Terms & Conditions", "POL-001">>,
       <<"has_privacy_policy", "Privacy Policy", "POL-002">>,
       <<"has_refund_policy", "Refund / Return Policy", "POL-003">>,
       <<"has_cancellation_policy", "Cancellation Policy", "POL-004">>,
       <<"has_payment_policy", "Payment Policy", "POL-005">> >>

\* the (field, label, rule_id) table of the policy-content loop; the label
\* is kept with its lower-cased form, which the recommendation quotes
PolicyContent ==
    << <<"policy_mentions_service_conditions",
         "Policies describe service/sale conditions", "POL-007",
         "policies describe service/sale conditions">>,
       <<"policy_mentions_cancellation_terms",
         "Policies describe cancellation terms", "POL-008",
         "policies describe cancellation terms">>,
       <<"policy_mentions_refund_terms",
         "Policies describe refund terms & deadlines", "POL-009",
         "policies describe refund terms & deadlines">>,
       <<"policy_mentions_user_restrictions",
         "Policies mention user restrictions", "POL-010",
         "policies mention user restrictions">>,
       <<"policy_mentions_company_name",
         "Policies mention company name as contracting party", "POL-011",
         "policies mention company name as contracting party">> >>

\* the refund-period test with a strict comparison
RefundOk_strict(days) == days > 14

\* the refund-period test
RefundOk(days) == days >= 14

\* the refund period looked at whenever it is known
RefundPeriodChecked_any(d) == d.refund_period_days # None

\* the prerequisite of the refund-period check
RefundPeriodChecked(d) == d.has_refund_policy /\ d.refund_period_days # None

_check_section_3(d) ==
    LET sec == "3. Policies"
        existence ==
            [i \in 1..Len(PolicyExistence) |->
                LET row == PolicyExistence[i]
                    val == d[row[1]]
                IN  ChecklistItem(sec, row[2], row[3],
                        IF val THEN "pass" ELSE "fail",
                        <<IF val THEN "Found" ELSE "Not found">>,
                        IF val THEN None
                        ELSE <<"Add a ", row[2],
                               " page accessible from every page.">>)]
        accessible ==
            FlagCheck(sec, "Policies accessible from all pages (footer/menu)",
                      "POL-006", d.policies_accessible_from_all_pages,
                      "warning", "Yes", "Not confirmed",
                      "Ensure all policy links are in the footer or main menu.")
        content ==
            [i \in 1..Len(PolicyContent) |->
                LET row == PolicyContent[i]
                    val == d[row[1]]
                IN  ChecklistItem(sec, row[2], row[3],
                        IF val THEN "pass" ELSE "warning",
                        <<IF val THEN "Yes" ELSE "Not found">>,
                        IF val THEN None
                        ELSE <<"Ensure policies include: ", row[4], ".">>)]
        refund ==
            IF RefundPeriodChecked(d)
            THEN LET ok == RefundOk(d.refund_period_days[1])
                 IN  << ChecklistItem(sec, "Refund period >= 14 days",
                            "POL-012",
                            IF ok THEN "pass" ELSE "warning",
                            FormatInt(d.refund_period_days[1]) \o <<" days">>,
                            IF ok THEN None
                            ELSE Some("Consider extending refund period to at least 14 days.")) >>
            ELSE <<>>
        language ==
            ChecklistItem(sec, "Primary language identified", "POL-013",
                IF Truthy(d.site_primary_language) THEN "pass" ELSE "info",
                <<OrElse(d.site_primary_language, "Not determined")>>,
                None)
    IN  existence \o <<accessible>> \o content \o refund \o <<language>>

_check_section_4(d) ==
    LET sec == "4. Product/Service Description"
        listed == Len(d.payment_methods_mentioned) > 0
        methods == IF listed THEN Join(", ", d.payment_methods_mentioned)
                   ELSE <<"None found">>
    IN  << FlagCheck(sec, "Detailed product/service descriptions", "PRD-001",
                     d.has_product_description, "fail", "Found", "Not found",
                     "Add detailed descriptions of goods/services."),
           FlagCheck(sec, "Prices in purchase currency", "PRD-002",
                     d.prices_in_purchase_currency, "fail", "Yes", "Not found",
                     "Show prices in the buyer's purchase currency."),
           FlagCheck(sec, "All fees and commissions disclosed", "PRD-003",
                     d.all_fees_disclosed, "warning", "Yes", "Not confirmed",
                     "Disclose all additional fees and commissions."),
           FlagCheck(sec, "Transparent purchase process", "PRD-004",
                     d.transparent_purchase_process, "warning", "Yes",
                     "Not confirmed",
                     "Make the purchase process clear and easy to follow."),
           ChecklistItem(sec, "Payment methods listed", "PRD-005",
                     IF listed THEN "pass" ELSE "warning",
                     methods,
                     IF listed THEN None
                     ELSE Some("List accepted payment methods on the site.")) >>

_check_section_5(d) ==
    LET sec == "5. Checkout Process"
    IN  << FlagCheck(sec, "Final price shown before payment", "CHK-001",
                     d.shows_final_price, "fail", "Yes", "Not confirmed",
                     "Show the total final price on the last step before payment."),
           FlagCheck(sec, "Merchant location shown at checkout", "CHK-002",
                     d.shows_merchant_location_at_checkout, "warning", "Yes",
                     "Not confirmed",
                     "Display Merchant Outlet Location at the final checkout step."),
           FlagCheck(sec, "Terms agreement checkbox", "CHK-003",
                     d.has_terms_agreement_checkbox, "fail", "Yes", "Not found",
                     "Add a checkbox: 'I agree to Terms & Conditions, Refund Policy...'") >>

_check_section_6(d) ==
    LET sec == "6. Receipt / Confirmation"
        receipt ==
            IF d.has_receipt_info
            THEN ChecklistItem(sec, "Electronic receipt / order confirmation",
                     "RCP-001", "pass",
                     <<"Evidence of receipt/confirmation system found">>, None)
            ELSE ChecklistItem(sec, "Electronic receipt / order confirmation",
                     "RCP-001", "warning",
                     <<"Not confirmed from page content">>,
                     Some("Requires manual verification: ensure receipts include date, merchant name, location, amount, card last 4 digits, and policy links."))
    IN  << receipt,
           ChecklistItem(sec,
                     "Receipt content requirements (manual check needed)",
                     "RCP-002", "info",
                     <<"Cannot be fully verified by crawling">>,
                     Some("Receipt must include: date/time, merchant name, Merchant Outlet Location, website URL, transaction type, product description, last 4 card digits, amount & currency, payment method, support contacts, links to T&C and Refund Policy.")) >>

\* the update notice without its text
_check_section_7_no_rec ==
    << ChecklistItem("7. Update Notification Requirements",
                     "Notify ECOMMBX on changes", "UPD-001", "info",
                     <<"Informational - cannot be verified by crawling">>,
                     None) >>

_check_section_7 ==
    << ChecklistItem("7. Update Notification Requirements",
                     "Notify ECOMMBX on changes", "UPD-001", "info",
                     <<"Informational - cannot be verified by crawling">>,
                     Some("You must notify ECOMMBX when changing: company name/registration, Merchant Outlet Location, license info, T&C (significant changes), business model, or adding other companies to the site.")) >>

_check_section_8(d) ==
    << FlagCheck("8. Mobile Compliance", "Mobile-responsive design",
                 "MOB-001", d.has_mobile_responsive, "warning",
                 "Responsive design detected", "Not confirmed",
                 "Ensure mobile version meets the same compliance requirements.") >>

----------------------------------------------------------------------------
(***************************************************************************)
(* Helpers: counting and the weighted score                                *)
(***************************************************************************)
\* number of the items of a checklist whose status is in the set
CountStatus(items, statuses) ==
    Cardinality({i \in 1..Len(items) : items[i].status \in statuses})

\* the emptiness test made on the passes instead of the scorable items
_count_results_no_pass(items) ==
    LET total == CountStatus(items, {"pass", "fail", "warning"})
        passed == CountStatus(items, {"pass"})
    IN  IF passed = 0 THEN <<1, 1>> ELSE <<passed, total>>

_count_results(items) ==
    LET total == CountStatus(items, {"pass", "fail", "warning"})
    IN  IF total = 0 THEN <<1, 1>>
        ELSE <<CountStatus(items, {"pass"}), total>>

\* section ids, in the order analyze_site fills section_results
SectionIds == <<"1", "2", "3", "4", "5", "6", "7", "8">>

\* the weights with nothing given to the informational section
SECTION_WEIGHTS_s7_zero ==
    [s \in {"1", "2", "3", "4", "5", "6", "7", "8"} |->
        CASE s = "1" -> 15 [] s = "2" -> 10 [] s = "3" -> 25
          [] s = "4" -> 15 [] s = "5" -> 15 [] s = "6" -> 10
          [] s = "7" -> 0  [] s = "8" -> 5]

SECTION_WEIGHTS ==
    [s \in {"1", "2", "3", "4", "5", "6", "7", "8"} |->
        CASE s = "1" -> 15 [] s = "2" -> 10 [] s = "3" -> 25
          [] s = "4" -> 15 [] s = "5" -> 15 [] s = "6" -> 10
          [] s = "7" -> 5  [] s = "8" -> 5]

RECURSIVE WeightedSum(_, _)
\* the running total of _calculate_score after the first n sections, as the
\* fraction <<numerator, denominator>>; a section with total 0 is skipped
WeightedSum(results, n) ==
    IF n = 0 THEN <<0, 1>>
    ELSE LET acc    == WeightedSum(results, n - 1)
             sec_id == SectionIds[n]
             passed == results[sec_id][1]
             total  == results[sec_id][2]
             weight == SECTION_WEIGHTS[sec_id]
         IN  IF total > 0
             THEN <<acc[1] * total + weight * passed * acc[2], acc[2] * total>>
             ELSE acc

\* the total truncated instead of rounded
PyRound_trunc(num, den) == num \div den

\* Python's round() of the non-negative fraction num/den: to the nearest
\* integer, a tie to the even one.  The float total of _calculate_score
\* rounds to this value for every combination of section counts the eight
\* evaluators can produce.
PyRound(num, den) ==
    LET q == num \div den
        r == num % den
    IN  IF 2 * r < den THEN q
        ELSE IF 2 * r > den THEN q + 1
        ELSE IF q % 2 = 0 THEN q ELSE q + 1

Min(a, b) == IF a < b THEN a ELSE b

Max(a, b) == IF a > b THEN a ELSE b

\* the weighted total cut to its integer part
_calculate_score_floor(results) ==
    LET score == WeightedSum(results, Len(SectionIds))
    IN  Max(0, Min(100, score[1] \div score[2]))

_calculate_score(results) ==
    LET score == WeightedSum(results, Len(SectionIds))
    IN  Max(0, Min(100, PyRound(score[1], score[2])))

----------------------------------------------------------------------------
(***************************************************************************)
(* analyze_site                                                            *)
(***************************************************************************)
\* the checklist with the last two sections exchanged
StaticChecklist_s8_first(d) ==
    _check_section_1(d) \o _check_section_2(d) \o _check_section_3(d)
    \o _check_section_4(d) \o _check_section_5(d) \o _check_section_6(d)
    \o _check_section_8(d) \o _check_section_7

\* step 2: the checklist, section after section
StaticChecklist(d) ==
    _check_section_1(d) \o _check_section_2(d) \o _check_section_3(d)
    \o _check_section_4(d) \o _check_section_5(d) \o _check_section_6(d)
    \o _check_section_7 \o _check_section_8(d)

\* section_results with the informational section counted as not passed
StaticSectionResults_s7_zero(d) ==
    [s \in {"1", "2", "3", "4", "5", "6", "7", "8"} |->
        CASE s = "1" -> _count_results(_check_section_1(d))
          [] s = "2" -> _count_results(_check_section_2(d))
          [] s = "3" -> _count_results(_check_section_3(d))
          [] s = "4" -> _count_results(_check_section_4(d))
          [] s = "5" -> _count_results(_check_section_5(d))
          [] s = "6" -> _count_results(_check_section_6(d))
          [] s = "7" -> <<0, 1>>
          [] s = "8" -> _count_results(_check_section_8(d))]

\* step 2: section_results
StaticSectionResults(d) ==
    [s \in {"1", "2", "3", "4", "5", "6", "7", "8"} |->
        CASE s = "1" -> _count_results(_check_section_1(d))
          [] s = "2" -> _count_results(_check_section_2(d))
          [] s = "3" -> _count_results(_check_section_3(d))
          [] s = "4" -> _count_results(_check_section_4(d))
          [] s = "5" -> _count_results(_check_section_5(d))
          [] s = "6" -> _count_results(_check_section_6(d))
          [] s = "7" -> <<1, 1>>
          [] s = "8" -> _count_results(_check_section_8(d))]

\* the status decided on the score alone
StaticStatus_score_only(score, fails) ==
    IF score >= 80 THEN "COMPLIANT"
    ELSE IF score >= 50 THEN "NEEDS_REVIEW"
    ELSE "NON-COMPLIANT"

\* step 4: the status of a static report
StaticStatus(score, fails) ==
    IF score >= 80 /\ fails = 0 THEN "COMPLIANT"
    ELSE IF score >= 50 THEN "NEEDS_REVIEW"
    ELSE "NON-COMPLIANT"

\* steps 3 to 5 and the ComplianceReport returned
StaticReport(d) ==
    LET checklist == StaticChecklist(d)
        score     == _calculate_score(StaticSectionResults(d))
        fails     == CountStatus(checklist, {"fail"})
        warnings  == CountStatus(checklist, {"warning"})
        status    == StaticStatus(score, fails)
        total     == CountStatus(checklist, {"pass", "fail", "warning"})
        passed    == CountStatus(checklist, {"pass"})
    IN  [company_name |-> OrElse(d.company_name, "Unknown"),
         score        |-> score,
         status       |-> status,
         checklist    |-> checklist,
         summary      |-> [total |-> total, passed |-> passed,
                           fails |-> fails, warnings |-> warnings,
                           score |-> score, status |-> status]]

\* the instants datetime.now may return
Instants == 1..MaxInstant

\* strftime of an instant, to the second
StrfTime(t) == FormatInt(t) \o <<" UTC">>

\* the report with its generated_at
WithGeneratedAt(r, generated_at) == r @@ [generated_at |-> generated_at]

NoReport == <<>>

NoResults == <<>>

\* no request is being served
Idle ==
    /\ pc = "idle"
    /\ mode = "none"
    /\ extracted = None
    /\ rules = <<>>
    /\ section_results = NoResults
    /\ report = NoReport
    /\ llm_calls = 0
    /\ llm_error = FALSE

\* analyze_site up to its await: the extraction call is made
AnalyzeSiteCall ==
    /\ pc = "idle"
    /\ pc' = "awaiting"
    /\ mode' = "static"
    /\ llm_calls' = llm_calls + 1
    /\ UNCHANGED <<extracted, rules, section_results, report, llm_error>>
    /\ UNCHANGED api_vars

\* the extraction returns the record d: analyze_site runs to its return, at
\* the instant t
AnalyzeSiteReturn ==
    /\ pc = "awaiting"
    /\ mode = "static"
    /\ \E d \in Records, t \in Instants :
        /\ extracted' = d
        /\ section_results' = StaticSectionResults(d)
        /\ report' = WithGeneratedAt(StaticReport(d), StrfTime(t))
    /\ pc' = "done"
    /\ UNCHANGED <<mode, rules, llm_calls, llm_error>>
    /\ UNCHANGED api_vars

\* the extraction raises and an all-absent record is evaluated in its place
AnalyzeSiteRaise_swallow ==
    /\ pc = "awaiting"
    /\ mode = "static"
    /\ extracted' = SiteContentExtraction
    /\ section_results' = StaticSectionResults(SiteContentExtraction)
    /\ \E t \in Instants :
        report' = WithGeneratedAt(StaticReport(SiteContentExtraction),
                                  StrfTime(t))
    /\ pc' = "done"
    /\ llm_error' = TRUE
    /\ UNCHANGED <<mode, rules, llm_calls>>
    /\ UNCHANGED api_vars

\* the extraction raises: analyze_site has no handler, the caller gets the
\* exception and no report
AnalyzeSiteRaise ==
    /\ pc = "awaiting"
    /\ mode = "static"
    /\ pc' = "raised"
    /\ llm_error' = TRUE
    /\ UNCHANGED <<mode, extracted, rules, section_results, report, llm_calls>>
    /\ UNCHANGED api_vars

\* the request is over; the engine keeps nothing of it
NextRequest ==
    /\ pc \in {"done", "raised"}
    /\ pc' = "idle"
    /\ mode' = "none"
    /\ extracted' = None
    /\ rules' = <<>>
    /\ section_results' = NoResults
    /\ report' = NoReport
    /\ llm_calls' = 0
    /\ llm_error' = FALSE
    /\ UNCHANGED api_vars

InitStatic == Idle /\ ApiIdle

NextStatic ==
    \/ AnalyzeSiteCall
    \/ AnalyzeSiteReturn
    \/ AnalyzeSiteRaise
    \/ NextRequest

SpecStatic == InitStatic /\ [][NextStatic]_vars

----------------------------------------------------------------------------
(***************************************************************************)
(* Text: str.lower, str.strip, substring test, str.replace                 *)
(***************************************************************************)
UpperCase == <<"A", "B", "C", "D", "E", "F", "G", "H", "I", "J", "K", "L", "M", "N", "O", "P", "Q", "R", "S", "T", "U", "V", "W", "X", "Y", "Z">>

LowerCase == <<"a", "b", "c", "d", "e", "f", "g", "h", "i", "j", "k", "l", "m", "n", "o", "p", "q", "r", "s", "t", "u", "v", "w", "x", "y", "z">>

\* str.lower() of one character
LowerChar(c) ==
    IF \E i \in 1..Len(UpperCase) : UpperCase[i] = c
    THEN LowerCase[CHOOSE i \in 1..Len(UpperCase) : UpperCase[i] = c]
    ELSE c

\* str.lower()
Lower(t) == [i \in 1..Len(t) |-> LowerChar(t[i])]

\* the characters str.strip() removes
Whitespace == {" ", "\t", "\n", "\r"}

RECURSIVE LStrip(_)
LStrip(t) ==
    IF Len(t) > 0 /\ t[1] \in Whitespace THEN LStrip(Tail(t)) ELSE t

RECURSIVE RStrip(_)
RStrip(t) ==
    IF Len(t) > 0 /\ t[Len(t)] \in Whitespace
    THEN RStrip(SubSeq(t, 1, Len(t) - 1)) ELSE t

\* str.strip()
Strip(t) == RStrip(LStrip(t))

\* t.startswith(prefix)
StartsWith(t, prefix) ==
    Len(prefix) <= Len(t) /\ SubSeq(t, 1, Len(prefix)) = prefix

\* `needle in t`
Contains(t, needle) ==
    \E i \in 0..(Len(t) - Len(needle)) :
        SubSeq(t, i + 1, i + Len(needle)) = needle

RECURSIVE Remove(_, _)
\* t.replace(old, ""), old non-empty: the occurrences are removed from left
\* to right, without a second pass over the result
Remove(t, old) ==
    IF Len(t) = 0 THEN t
    ELSE IF StartsWith(t, old)
         THEN Remove(SubSeq(t, Len(old) + 1, Len(t)), old)
         ELSE <<t[1]>> \o Remove(Tail(t), old)

\* t[:n]
Truncate(t, n) == SubSeq(t, 1, Min(Len(t), n))

----------------------------------------------------------------------------
(***************************************************************************)
(* DynamicChecklistRule, DynamicExtractionResult and their bounded sets    *)
(***************************************************************************)
\* the severities a rule declares
Severities == {"fail", "warning"}

\* the rule ids of a rule list, pairwise distinct
RuleIds == <<"R1", "R2", "R3", "R4", "R5", "R6", "R7", "R8">>

\* the n-th rule of a rule list
DynamicChecklistRule(n, pass_condition, severity) ==
    [rule_id |-> RuleIds[n], section |-> "Custom",
     item |-> <<"Rule ", RuleIds[n]>>,
     description |-> <<"Requirement ", RuleIds[n]>>,
     extraction_prompt |-> <<"Find ", RuleIds[n]>>,
     pass_condition |-> pass_condition, severity |-> severity]

\* the characters of the generated texts
Alphabet == {"a", "A", " ", "(", ")"}

\* every text over the alphabet of at most MaxTextLen characters
SmallTexts == UNION {[1..k -> Alphabet] : k \in 0..MaxTextLen}

\* pass conditions of the rule sets of one rule
Conditions ==
    {<<"n", "o", "t", "_", "e", "m", "p", "t", "y">>,
     <<"N", "o", "t", "_", "E", "m", "p", "t", "y">>,
     <<"t", "r", "u", "e">>,
     <<"T", "R", "U", "E">>,
     <<"c", "o", "n", "t", "a", "i", "n", "s", "(", "p", "r", "i", "v", "a", "c", "y", ")">>,
     <<"c", "o", "n", "t", "a", "i", "n", "s", "(", " ", "P", "r", "i", "v", "a", "c", "y", " ", ")">>,
     <<"e", "x", "i", "s", "t", "s">>,
     <<>>,
     <<"n", "o", "t", "_", "c", "o", "n", "t", "a", "i", "n", "s", "(", "a", ")">>,
     <<"c", "o", "n", "t", "a", "i", "n", "s", " ", "a">>,
     <<"c", "o", "n", "t", "a", "i", "n", "s", "(", "c", "o", "n", "t", "a", "i", "n", "s", "(", "a", ")", ")">>,
     <<"e", "q", "u", "a", "l", "s", "(", "y", "e", "s", ")">>}
    \cup {<<"c", "o", "n", "t", "a", "i", "n", "s", "(">> \o needle \o <<")">> : needle \in SmallTexts}

\* values the extraction returns for the rule of a rule set of one rule
Values ==
    {<<"N", "o", "t", " ", "f", "o", "u", "n", "d">>,
     <<"N", "O", "T", " ", "F", "O", "U", "N", "D">>,
     <<" ", "n", "o", "t", " ", "f", "o", "u", "n", "d", " ">>,
     <<"N", "o", "n", "e">>,
     <<"n", "u", "l", "l">>,
     <<"S", "e", "e", " ", "o", "u", "r", " ", "P", "r", "i", "v", "a", "c", "y", " ", "P", "o", "l", "i", "c", "y">>,
     <<"S", "e", "e", " ", "o", "u", "r", " ", "T", "e", "r", "m", "s">>,
     <<"y", "e", "s">>,
     <<"Y", "e", "s", " ">>,
     <<"t", "r", "u", "e">>,
     <<"f", "o", "u", "n", "d">>,
     <<"P", "r", "e", "s", "e", "n", "t">>,
     <<"n", "o">>,
     <<"m", "a", "y", "b", "e">>,
     <<"a", "(", "a", ")">>,
     <<"(", "a", ")", ")">>}
    \cup SmallTexts

\* pass conditions and values of the rule sets of several rules
CoreConditions == {<<"n", "o", "t", "_", "e", "m", "p", "t", "y">>, <<"t", "r", "u", "e">>}

CoreValues == {<<"N", "o", "t", " ", "f", "o", "u", "n", "d">>, <<"y", "e", "s">>, <<"m", "a", "y", "b", "e">>}

\* the rule lists analyze_dynamic is called with: none, one rule with any
\* of the conditions, or up to MaxRules rules with the core conditions
RuleLists ==
    {<<>>}
    \cup {<<DynamicChecklistRule(1, c, s)>> : c \in Conditions, s \in Severities}
    \cup UNION {{[i \in 1..n |-> DynamicChecklistRule(i, cs[i][1], cs[i][2])] :
                   cs \in [1..n -> CoreConditions \X Severities]} :
                n \in 2..MaxRules}

\* the results maps the extraction may return for a rule list: any of the
\* rule ids may be missing
ResultMaps(rs) ==
    LET ids  == {rs[i].rule_id : i \in 1..Len(rs)}
        vals == IF Len(rs) = 1 THEN Values ELSE CoreValues
    IN  UNION {[keys -> vals] : keys \in SUBSET ids}

----------------------------------------------------------------------------
(***************************************************************************)
(* analyze_dynamic                                                         *)
(***************************************************************************)
NOT_FOUND == <<"N", "o", "t", " ", "f", "o", "u", "n", "d">>

\* extracted.results.get(r.rule_id, "Not found")
ResultFor(results, r) ==
    IF r.rule_id \in DOMAIN results THEN results[r.rule_id] ELSE NOT_FOUND

\* the values that count as absent
AbsentValues == {<<"n", "o", "t", " ", "f", "o", "u", "n", "d">>, <<"n", "o", "n", "e">>, <<>>, <<"n", "u", "l", "l">>}

\* the accepted values without the last two
TrueValues_short == {<<"t", "r", "u", "e">>, <<"y", "e", "s">>}

TrueValues == {<<"t", "r", "u", "e">>, <<"y", "e", "s">>, <<"f", "o", "u", "n", "d">>, <<"p", "r", "e", "s", "e", "n", "t">>}

\* the target of a contains condition
ContainsTarget(condition) ==
    Strip(Remove(Remove(condition, <<"c", "o", "n", "t", "a", "i", "n", "s", "(">>), <<")">>))

\* is_pass with the value lower-cased but not stripped
IsPass_no_strip(pass_condition, val) ==
    LET condition == Lower(pass_condition)
        val_lower == Lower(val)
    IN  IF val_lower \in AbsentValues THEN FALSE
        ELSE IF condition = <<"n", "o", "t", "_", "e", "m", "p", "t", "y">> THEN TRUE
        ELSE IF condition = <<"t", "r", "u", "e">> THEN val_lower \in TrueValues
        ELSE IF Contains(condition, <<"c", "o", "n", "t", "a", "i", "n", "s">>)
             THEN Contains(val_lower, ContainsTarget(condition))
        ELSE TRUE

\* is_pass of one rule
IsPass(pass_condition, val) ==
    LET condition == Lower(pass_condition)
        val_lower == Strip(Lower(val))
    IN  IF val_lower \in AbsentValues THEN FALSE
        ELSE IF condition = <<"n", "o", "t", "_", "e", "m", "p", "t", "y">> THEN TRUE
        ELSE IF condition = <<"t", "r", "u", "e">> THEN val_lower \in TrueValues
        ELSE IF Contains(condition, <<"c", "o", "n", "t", "a", "i", "n", "s">>)
             THEN Contains(val_lower, ContainsTarget(condition))
        ELSE TRUE

\* the checklist item of one rule, the description attached in every case
DynamicItem_rec_always(r, val) ==
    LET is_pass == IsPass(r.pass_condition, val)
    IN  ChecklistItem(r.section, r.item, r.rule_id,
                      IF is_pass THEN "pass" ELSE r.severity,
                      Truncate(val, 100),
                      r.description)

\* the checklist item of one rule
DynamicItem(r, val) ==
    LET is_pass == IsPass(r.pass_condition, val)
    IN  ChecklistItem(r.section, r.item, r.rule_id,
                      IF is_pass THEN "pass" ELSE r.severity,
                      Truncate(val, 100),
                      IF is_pass THEN None ELSE r.description)

\* step 3: the checklist, rule after rule
DynamicChecklist(rs, results) ==
    [i \in 1..Len(rs) |-> DynamicItem(rs[i], ResultFor(results, rs[i]))]

\* the percentage rounded to the nearest integer
PercentScore_round(passed_count, total_count) ==
    PyRound(100 * passed_count, total_count)

\* int((passed_count / total_count) * 100): the float product truncated.
\* It is floor(100 * passed / total) for every total below 50; the first
\* float product that falls short of its integer is (29 / 50) * 100.
PercentScore(passed_count, total_count) ==
    (100 * passed_count) \div total_count

\* the status with the middle band of the static classifier
DynamicStatus_banded(score) ==
    IF score = 100 THEN "COMPLIANT"
    ELSE IF score >= 50 THEN "NEEDS_REVIEW"
    ELSE "NON-COMPLIANT"

\* step 4: the status of a dynamic report
DynamicStatus(score) == IF score = 100 THEN "COMPLIANT" ELSE "NON-COMPLIANT"

\* the report with the unmet warning rules counted as passed
DynamicReport_warn_ok(rs, results) ==
    LET checklist    == DynamicChecklist(rs, results)
        total_count  == CountStatus(checklist, {"pass", "fail", "warning"})
        passed_count == CountStatus(checklist, {"pass", "warning"})
        score        == IF total_count > 0
                        THEN PercentScore(passed_count, total_count) ELSE 0
    IN  [company_name |-> "Dynamic Check",
         score        |-> score,
         status       |-> DynamicStatus(score),
         checklist    |-> checklist,
         summary      |-> [passed |-> passed_count, total |-> total_count]]

\* steps 3 and 4 and the ComplianceReport returned
DynamicReport(rs, results) ==
    LET checklist    == DynamicChecklist(rs, results)
        total_count  == CountStatus(checklist, {"pass", "fail", "warning"})
        passed_count == CountStatus(checklist, {"pass"})
        score        == IF total_count > 0
                        THEN PercentScore(passed_count, total_count) ELSE 0
    IN  [company_name |-> "Dynamic Check",
         score        |-> score,
         status       |-> DynamicStatus(score),
         checklist    |-> checklist,
         summary      |-> [passed |-> passed_count, total |-> total_count]]

\* the report the evaluation loop gives for no rules, without the early return
NoRulesReport_unguarded == WithGeneratedAt(DynamicReport(<<>>, <<>>), <<>>)

\* the report of a call without rules
NoRulesReport ==
    [company_name |-> "Unknown", score |-> 0, status |-> "NEEDS_REVIEW",
     checklist |-> <<>>, summary |-> [text |-> "No rules provided."],
     generated_at |-> <<>>]

\* analyze_dynamic called without rules: it returns at once
AnalyzeDynamicNoRules ==
    /\ pc = "idle"
    /\ pc' = "done"
    /\ mode' = "dynamic"
    /\ rules' = <<>>
    /\ report' = NoRulesReport
    /\ UNCHANGED <<extracted, section_results, llm_calls, llm_error>>
    /\ UNCHANGED api_vars

\* analyze_dynamic up to its await, with the extraction call repeated
AnalyzeDynamicCall_twice ==
    /\ pc = "idle"
    /\ \E rs \in RuleLists :
        /\ Len(rs) > 0
        /\ rules' = rs
    /\ pc' = "awaiting"
    /\ mode' = "dynamic"
    /\ llm_calls' = llm_calls + 2
    /\ UNCHANGED <<extracted, section_results, report, llm_error>>
    /\ UNCHANGED api_vars

\* analyze_dynamic up to its await: the extraction call is made
AnalyzeDynamicCall ==
    /\ pc = "idle"
    /\ \E rs \in RuleLists :
        /\ Len(rs) > 0
        /\ rules' = rs
    /\ pc' = "awaiting"
    /\ mode' = "dynamic"
    /\ llm_calls' = llm_calls + 1
    /\ UNCHANGED <<extracted, section_results, report, llm_error>>
    /\ UNCHANGED api_vars

\* the extraction returns a results map: analyze_dynamic runs to its return
AnalyzeDynamicReturn ==
    /\ pc = "awaiting"
    /\ mode = "dynamic"
    /\ \E results \in ResultMaps(rules), t \in Instants :
        /\ extracted' = results
        /\ report' = WithGeneratedAt(DynamicReport(rules, results),
                                     StrfTime(t))
    /\ pc' = "done"
    /\ UNCHANGED <<mode, rules, section_results, llm_calls, llm_error>>
    /\ UNCHANGED api_vars

\* the extraction raises and nothing catches it
AnalyzeDynamicRaise_propagate ==
    /\ pc = "awaiting"
    /\ mode = "dynamic"
    /\ pc' = "raised"
    /\ llm_error' = TRUE
    /\ UNCHANGED <<mode, extracted, rules, section_results, report, llm_calls>>
    /\ UNCHANGED api_vars

\* the extraction raises: the handler substitutes the empty results map and
\* analyze_dynamic runs to its return
AnalyzeDynamicRaise ==
    /\ pc = "awaiting"
    /\ mode = "dynamic"
    /\ extracted' = <<>>
    /\ \E t \in Instants :
        report' = WithGeneratedAt(DynamicReport(rules, <<>>), StrfTime(t))
    /\ pc' = "done"
    /\ llm_error' = TRUE
    /\ UNCHANGED <<mode, rules, section_results, llm_calls>>
    /\ UNCHANGED api_vars

InitDynamic == Idle /\ ApiIdle

NextDynamic ==
    \/ AnalyzeDynamicNoRules
    \/ AnalyzeDynamicCall
    \/ AnalyzeDynamicReturn
    \/ AnalyzeDynamicRaise
    \/ NextRequest

SpecDynamic == InitDynamic /\ [][NextDynamic]_vars

----------------------------------------------------------------------------
(***************************************************************************)
(* The engine serving requests of either kind                              *)
(***************************************************************************)
Init == Idle /\ ApiIdle

Next ==
    \/ AnalyzeSiteCall
    \/ AnalyzeSiteReturn
    \/ AnalyzeSiteRaise
    \/ AnalyzeDynamicNoRules
    \/ AnalyzeDynamicCall
    \/ AnalyzeDynamicReturn
    \/ AnalyzeDynamicRaise
    \/ NextRequest

Spec == Init /\ [][Next]_vars

----------------------------------------------------------------------------
(***************************************************************************)
(* Properties of analyze_site                                              *)
(***************************************************************************)
\* analyze_site has returned a report
StaticDone == pc = "done" /\ mode = "static"

\* C1: the status of every report of analyze_site, with S its score and F the
\* number of its checklist items of status fail: COMPLIANT iff S >= 80 and
\* F = 0; otherwise NEEDS_REVIEW iff S >= 50; otherwise NON-COMPLIANT.
C1_StatusFromScoreAndFails ==
    StaticDone =>
        LET S == report.score
            F == Cardinality({i \in 1..Len(report.checklist) :
                                 report.checklist[i].status = "fail"})
            top == S >= 80 /\ F = 0
        IN  /\ (report.status = "COMPLIANT") <=> top
            /\ ~top => ((report.status = "NEEDS_REVIEW") <=> (S >= 50))
            /\ (~top /\ S < 50) => report.status = "NON-COMPLIANT"

\* a report that scores at least 80 and is held at NEEDS_REVIEW by a fail
C1_Witness ==
    /\ StaticDone
    /\ report.score >= 80
    /\ \E i \in 1..Len(report.checklist) : report.checklist[i].status = "fail"
    /\ report.status = "NEEDS_REVIEW"

\* the section labels the items carry, by section id
ClaimSectionLabel ==
    <<"1. Company Information", "2. Contacts", "3. Policies",
      "4. Product/Service Description", "5. Checkout Process",
      "6. Receipt / Confirmation", "7. Update Notification Requirements",
      "8. Mobile Compliance">>

ClaimWeight == <<15, 10, 25, 15, 15, 10, 5, 5>>

\* <<passed, total>> of section n, counted over the report's items of that
\* section whose status is not info; a section without such an item counts
\* as <<1, 1>>
ClaimCounts(checklist, n) ==
    LET scorable == {i \in 1..Len(checklist) :
                        /\ checklist[i].section = ClaimSectionLabel[n]
                        /\ checklist[i].status # "info"}
        passed == {i \in scorable : checklist[i].status = "pass"}
    IN  IF scorable = {} THEN <<1, 1>>
        ELSE <<Cardinality(passed), Cardinality(scorable)>>

RECURSIVE ClaimSum(_, _)
\* the sum of weight x passed/total over sections 1..n, as <<num, den>>
ClaimSum(checklist, n) ==
    IF n = 0 THEN <<0, 1>>
    ELSE LET acc == ClaimSum(checklist, n - 1)
             c   == ClaimCounts(checklist, n)
         IN  <<acc[1] * c[2] + ClaimWeight[n] * c[1] * acc[2], acc[2] * c[2]>>

Abs(x) == IF x < 0 THEN -x ELSE x

\* C2: the static score is the sum over the eight sections of
\* weight x passed/total (weights 15/10/25/15/15/10/5/5, passed and total
\* counted over the section's items that are not info, a section without
\* such an item counting as 1/1), rounded to the nearest integer and kept
\* within 0..100; so every static score is an integer in 0..100.
C2_WeightedScore ==
    StaticDone =>
        LET sum == ClaimSum(report.checklist, 8)
        IN  /\ report.score \in 0..100
            /\ sum[1] <= 100 * sum[2]
            /\ 2 * Abs(report.score * sum[2] - sum[1]) <= sum[2]

\* a report whose weighted sum is not an integer, so that rounding acts,
\* and in which the rounding goes up
C2_Witness ==
    /\ StaticDone
    /\ LET sum == ClaimSum(report.checklist, 8)
       IN  /\ sum[1] % sum[2] # 0
           /\ report.score * sum[2] > sum[1]

\* C3: for the record of the defaults (every flag false, every string and
\* integer null, no payment method) the score is exactly 5: section 7
\* contributes its full weight and every other section nothing; and no
\* record scores below 5.
C3_ScoreFloor ==
    StaticDone =>
        /\ report.score >= 5
        /\ extracted = SiteContentExtraction =>
              /\ report.score = 5
              /\ section_results["7"][1] = section_results["7"][2]
              /\ \A n \in {1, 2, 3, 4, 5, 6, 8} :
                    section_results[SectionIds[n]][1] = 0

C3_Witness ==
    /\ StaticDone
    /\ extracted = SiteContentExtraction
    /\ report.score = 5

\* every field of the record is populated: strings non-empty, flags true,
\* refund_period_days non-null, payment methods listed
AllPopulated(d) ==
    /\ \A f \in StringFields : Truthy(d[f])
    /\ \A f \in BoolFields : d[f]
    /\ d.refund_period_days # None
    /\ Len(d.payment_methods_mentioned) > 0

\* C4 as stated: every record with all fields populated gets score 100 and
\* status COMPLIANT.
C4_Original ==
    (StaticDone /\ AllPopulated(extracted)) =>
        report.score = 100 /\ report.status = "COMPLIANT"

\* C4, amended: every record with all fields populated and a refund period
\* of at least 14 days gets score 100 and status COMPLIANT.
C4_FullyPopulated ==
    (StaticDone /\ AllPopulated(extracted)
        /\ extracted.refund_period_days[1] >= 14) =>
        report.score = 100 /\ report.status = "COMPLIANT"

C4_Witness ==
    /\ StaticDone
    /\ AllPopulated(extracted)
    /\ extracted.refund_period_days[1] >= 14
    /\ report.score = 100

\* the flags whose absence is reported as fail
FailTierFlags ==
    {"has_contact_page", "has_terms_conditions", "has_privacy_policy",
     "has_refund_policy", "has_cancellation_policy", "has_payment_policy",
     "has_product_description", "prices_in_purchase_currency",
     "shows_final_price", "has_terms_agreement_checkbox"}

\* C5: monotonicity.  For every record and every fail-tier flag that is
\* true in it, the record with only that flag changed to false does not
\* score higher; has_refund_policy, whose change also removes the
\* refund-period check, included.
C5_Monotone ==
    StaticDone =>
        \A f \in FailTierFlags :
            extracted[f] =>
                StaticReport([extracted EXCEPT ![f] = FALSE]).score
                    <= report.score

\* a record whose refund-period check is a warning, and for which dropping
\* has_refund_policy removes that check and lowers the score
C5_Witness ==
    /\ StaticDone
    /\ extracted.has_refund_policy
    /\ \E i \in 1..Len(report.checklist) :
          /\ report.checklist[i].rule_id = "POL-012"
          /\ report.checklist[i].status = "warning"
    /\ LET flipped ==
              StaticReport([extracted EXCEPT !["has_refund_policy"] = FALSE])
       IN  /\ \A i \in 1..Len(flipped.checklist) :
                 flipped.checklist[i].rule_id # "POL-012"
           /\ flipped.score < report.score

----------------------------------------------------------------------------
(***************************************************************************)
(* Properties of analyze_dynamic                                           *)
(***************************************************************************)
\* analyze_dynamic has returned a report
DynamicDone == pc = "done" /\ mode = "dynamic"

\* the value returned for the rule is absent: missing from the results, or
\* after trimming equal, case-insensitively, to one of the four texts
ClaimAbsent(results, r) ==
    \/ r.rule_id \notin DOMAIN results
    \/ \E w \in {<<"N", "o", "t", " ", "f", "o", "u", "n", "d">>, <<"n", "o", "n", "e">>, <<"n", "u", "l", "l">>, <<>>} :
          Lower(Strip(results[r.rule_id])) = Lower(w)

\* the pass condition has the form contains(<needle>)
ClaimContainsForm(pass_condition) ==
    LET c == Lower(pass_condition)
    IN  /\ StartsWith(c, <<"c", "o", "n", "t", "a", "i", "n", "s", "(">>)
        /\ Len(c) > Len(<<"c", "o", "n", "t", "a", "i", "n", "s", "(">>)
        /\ c[Len(c)] = ")"

\* the <needle> of a condition of that form
ClaimNeedle(pass_condition) ==
    SubSeq(pass_condition, Len(<<"c", "o", "n", "t", "a", "i", "n", "s", "(">>) + 1, Len(pass_condition) - 1)

\* C6: when the value returned for a rule is absent the rule does not pass,
\* whatever its pass_condition, and its item's status is the rule's
\* severity (fail or warning); the status of an item is pass only for a
\* value that is present.
C6_AbsentNeverPasses ==
    DynamicDone =>
        \A i \in 1..Len(rules) :
            LET it == report.checklist[i]
            IN  /\ ClaimAbsent(extracted, rules[i]) =>
                      /\ it.status = rules[i].severity
                      /\ it.status \in {"fail", "warning"}
                /\ it.status \in {"pass", rules[i].severity}
                /\ it.status = "pass" => ~ClaimAbsent(extracted, rules[i])

\* a not_empty rule of severity warning whose value is " not found ":
\* absent only after lower-casing and trimming
C6_Witness ==
    /\ DynamicDone
    /\ Len(rules) = 1
    /\ rules[1].pass_condition = <<"n", "o", "t", "_", "e", "m", "p", "t", "y">>
    /\ rules[1].severity = "warning"
    /\ rules[1].rule_id \in DOMAIN extracted
    /\ extracted[rules[1].rule_id] = <<" ", "n", "o", "t", " ", "f", "o", "u", "n", "d", " ">>
    /\ report.checklist[1].status = "warning"

\* C7: for a present value and a pass_condition of the form
\* contains(<needle>) the rule passes iff <needle>, trimmed and compared
\* case-insensitively, is a substring of the value, for every needle,
\* those with parentheses or the text contains( in them included.
C7_ContainsIsSubstring ==
    DynamicDone =>
        \A i \in 1..Len(rules) :
            (/\ ~ClaimAbsent(extracted, rules[i])
             /\ ClaimContainsForm(rules[i].pass_condition)) =>
                ((report.checklist[i].status = "pass") <=>
                    Contains(Lower(extracted[rules[i].rule_id]),
                             Strip(Lower(ClaimNeedle(rules[i].pass_condition)))))

\* C8: for a present value and a pass_condition that is not not_empty, not
\* true and not of the form contains(<needle>), the rule passes, whatever
\* text the condition contains.
C8_UnknownConditionPasses ==
    DynamicDone =>
        \A i \in 1..Len(rules) :
            (/\ ~ClaimAbsent(extracted, rules[i])
             /\ Lower(rules[i].pass_condition) \notin {<<"n", "o", "t", "_", "e", "m", "p", "t", "y">>, <<"t", "r", "u", "e">>}
             /\ ~ClaimContainsForm(rules[i].pass_condition)) =>
                report.checklist[i].status = "pass"

\* the four values a true condition accepts
ClaimTrueWords == {<<"t", "r", "u", "e">>, <<"y", "e", "s">>, <<"f", "o", "u", "n", "d">>, <<"p", "r", "e", "s", "e", "n", "t">>}

\* C9 as stated: for a present value, a not_empty rule passes, and a true
\* rule passes iff the value, compared case-insensitively, is one of true,
\* yes, found, present.
C9_Original ==
    DynamicDone =>
        \A i \in 1..Len(rules) :
            ~ClaimAbsent(extracted, rules[i]) =>
                /\ rules[i].pass_condition = <<"n", "o", "t", "_", "e", "m", "p", "t", "y">> =>
                      report.checklist[i].status = "pass"
                /\ rules[i].pass_condition = <<"t", "r", "u", "e">> =>
                      ((report.checklist[i].status = "pass") <=>
                          Lower(extracted[rules[i].rule_id]) \in ClaimTrueWords)

\* C9, amended: for a present value, a not_empty rule passes, and a true
\* rule passes iff the value, trimmed and compared case-insensitively, is
\* one of true, yes, found, present; no later branch (contains, fallback)
\* lets another value pass.
C9_NotEmptyAndTrue ==
    DynamicDone =>
        \A i \in 1..Len(rules) :
            ~ClaimAbsent(extracted, rules[i]) =>
                /\ rules[i].pass_condition = <<"n", "o", "t", "_", "e", "m", "p", "t", "y">> =>
                      report.checklist[i].status = "pass"
                /\ rules[i].pass_condition = <<"t", "r", "u", "e">> =>
                      ((report.checklist[i].status = "pass") <=>
                          Lower(Strip(extracted[rules[i].rule_id]))
                              \in ClaimTrueWords)

\* a true rule that passes on the value "Present", and is the only rule
C9_Witness ==
    /\ DynamicDone
    /\ Len(rules) = 1
    /\ rules[1].pass_condition = <<"t", "r", "u", "e">>
    /\ rules[1].rule_id \in DOMAIN extracted
    /\ extracted[rules[1].rule_id] = <<"P", "r", "e", "s", "e", "n", "t">>
    /\ report.checklist[1].status = "pass"

\* the rules of the report that are scored, and those that passed
ClaimTotal == Cardinality({i \in 1..Len(report.checklist) :
                              report.checklist[i].status # "info"})

ClaimPassed == Cardinality({i \in 1..Len(report.checklist) :
                               report.checklist[i].status = "pass"})

\* C10 as stated: for a non-empty rule set the score is 100 x passed/total
\* rounded to the nearest integer, and 0 when no rule is scorable.
C10_Original ==
    (DynamicDone /\ Len(rules) > 0) =>
        IF ClaimTotal = 0 THEN report.score = 0
        ELSE 2 * Abs(report.score * ClaimTotal - 100 * ClaimPassed)
                 <= ClaimTotal

\* C10, amended: for a non-empty rule set the score is 100 x passed/total
\* truncated to an integer (rounded down, never up), and 0 when no rule is
\* scorable.
C10_TruncatedPercentage ==
    (DynamicDone /\ Len(rules) > 0) =>
        IF ClaimTotal = 0 THEN report.score = 0
        ELSE /\ report.score * ClaimTotal <= 100 * ClaimPassed
             /\ 100 * ClaimPassed < (report.score + 1) * ClaimTotal

\* two rules of three passed: the score is 66, where rounding gives 67
C10_Witness ==
    /\ DynamicDone
    /\ ClaimTotal = 3
    /\ ClaimPassed = 2
    /\ report.score = 66

\* C11: analyze_dynamic with a non-empty rule list returns COMPLIANT when
\* the score is 100 and NON-COMPLIANT otherwise, never NEEDS_REVIEW; one
\* unmet rule of severity warning already makes the report NON-COMPLIANT.
C11_BinaryStatus ==
    (DynamicDone /\ Len(rules) > 0) =>
        /\ report.score = 100 => report.status = "COMPLIANT"
        /\ report.score # 100 => report.status = "NON-COMPLIANT"
        /\ report.status # "NEEDS_REVIEW"
        /\ (\E i \in 1..Len(report.checklist) :
               report.checklist[i].status = "warning") =>
              report.status = "NON-COMPLIANT"

\* one unmet warning rule among passed ones, a score of at least 50, and
\* the report is NON-COMPLIANT
C11_Witness ==
    /\ DynamicDone
    /\ Len(rules) > 1
    /\ Cardinality({i \in 1..Len(report.checklist) :
                       report.checklist[i].status = "warning"}) = 1
    /\ \A i \in 1..Len(report.checklist) :
          report.checklist[i].status \in {"pass", "warning"}
    /\ report.score >= 50
    /\ report.status = "NON-COMPLIANT"

\* C12: analyze_dynamic called with an empty rule list returns score 0,
\* status NEEDS_REVIEW and an empty checklist, and the extraction is never
\* invoked during that call.
C12_NoRules ==
    (DynamicDone /\ rules = <<>>) =>
        /\ report.score = 0
        /\ report.status = "NEEDS_REVIEW"
        /\ report.checklist = <<>>
        /\ llm_calls = 0
        /\ ~llm_error

C12_Witness ==
    /\ DynamicDone
    /\ rules = <<>>
    /\ report # NoReport
    /\ report.status = "NEEDS_REVIEW"
    /\ llm_calls = 0

\* C13: when the extraction fails during analyze_dynamic with a non-empty
\* rule list no error reaches the caller: a report is returned with one item
\* per rule, each with found value "Not found" and the rule's severity as
\* status, score 0 and status NON-COMPLIANT.
C13_FailureSwallowed ==
    (mode = "dynamic" /\ llm_error) =>
        /\ pc = "done"
        /\ report # NoReport
        /\ Len(report.checklist) = Len(rules)
        /\ \A i \in 1..Len(rules) :
              /\ report.checklist[i].rule_id = rules[i].rule_id
              /\ report.checklist[i].found_value = <<"N", "o", "t", " ", "f", "o", "u", "n", "d">>
              /\ report.checklist[i].status = rules[i].severity
        /\ report.score = 0
        /\ report.status = "NON-COMPLIANT"

\* the extraction failed for a list of several rules, among them a
\* not_empty rule of severity warning
C13_Witness ==
    /\ DynamicDone
    /\ llm_error
    /\ Len(rules) > 1
    /\ \E i \in 1..Len(rules) :
          /\ rules[i].pass_condition = <<"n", "o", "t", "_", "e", "m", "p", "t", "y">>
          /\ rules[i].severity = "warning"
          /\ report.checklist[i].status = "warning"
    /\ report.score = 0

\* C14: when the extraction fails during analyze_site the failure reaches
\* the caller and no report is produced: no checklist is evaluated, no
\* all-absent report is substituted and the extraction is not called again.
C14_FailurePropagates ==
    (mode = "static" /\ llm_error) =>
        /\ pc = "raised"
        /\ report = NoReport
        /\ section_results = NoResults
        /\ extracted = None
        /\ llm_calls = 1

C14_Witness ==
    /\ mode = "static"
    /\ pc = "raised"
    /\ llm_error
    /\ report = NoReport
    /\ llm_calls = 1

\* C15: in analyze_site, and in analyze_dynamic with a non-empty rule list,
\* the extraction is invoked exactly once, whether it failed or returned a
\* record with missing fields, and nothing is evaluated while it is pending.
C15_ExtractedOnce ==
    /\ (pc \in {"awaiting", "done", "raised"}
            /\ (mode = "static" \/ Len(rules) > 0)) => llm_calls = 1
    /\ pc = "awaiting" =>
          /\ report = NoReport
          /\ section_results = NoResults
          /\ extracted = None
    /\ pc = "idle" => llm_calls = 0

\* a static report from a record with missing fields, after one call
C15_Witness ==
    /\ StaticDone
    /\ extracted.company_name = None
    /\ ~extracted.has_contact_page
    /\ report # NoReport
    /\ llm_calls = 1

\* C16: in every report of either mode an item with status pass carries no
\* recommendation and an item with status fail or warning carries one.
C16_RecommendationByStatus ==
    (pc = "done" /\ report # NoReport) =>
        \A i \in 1..Len(report.checklist) :
            LET it == report.checklist[i]
            IN  /\ it.status = "pass" => it.recommendation = None
                /\ it.status \in {"fail", "warning"} => it.recommendation # None

\* a dynamic report with a passed rule and an unmet one
C16_Witness ==
    /\ DynamicDone
    /\ \E i, j \in 1..Len(report.checklist) :
          /\ report.checklist[i].status = "pass"
          /\ report.checklist[i].recommendation = None
          /\ report.checklist[j].status = "warning"
          /\ report.checklist[j].recommendation = rules[j].description

ManualNotices == {"RCP-002", "UPD-001"}

ClaimItems(id) ==
    {report.checklist[i] : i \in {j \in 1..Len(report.checklist) :
                                     report.checklist[j].rule_id = id}}

\* the extraction record with another detected language
ClaimWithLanguage(v) == [extracted EXCEPT !.site_primary_language = v]

\* a language was detected: the field is neither null nor the empty text
ClaimLanguagePresent(v) == v # None /\ v # Some("")

\* C18 as stated: POL-013 is info for every record, and two records that
\* differ only in site_primary_language get the same score and status.
C18_Original ==
    StaticDone =>
        /\ \A it \in ClaimItems("POL-013") : it.status = "info"
        /\ \A v \in FieldValues("site_primary_language") :
              /\ StaticReport(ClaimWithLanguage(v)).score = report.score
              /\ StaticReport(ClaimWithLanguage(v)).status = report.status

\* C18: POL-013 is in every static report, without recommendation; it is
\* info when site_primary_language is null or empty and pass when a language
\* was detected.  Two records that differ only in site_primary_language get
\* the same score and status when the language is detected in both or in
\* neither, and the one with a language never scores lower than the other.
C18_LanguageCheck ==
    StaticDone =>
        LET here == ClaimLanguagePresent(extracted.site_primary_language)
        IN  /\ Cardinality(ClaimItems("POL-013")) = 1
            /\ \A it \in ClaimItems("POL-013") :
                  /\ it.status = IF here THEN "pass" ELSE "info"
                  /\ it.recommendation = None
            /\ \A v \in FieldValues("site_primary_language") :
                  LET other == StaticReport(ClaimWithLanguage(v))
                  IN  /\ ClaimLanguagePresent(v) = here =>
                            /\ other.score = report.score
                            /\ other.status = report.status
                      /\ (ClaimLanguagePresent(v) /\ ~here) =>
                            other.score >= report.score
                      /\ (~ClaimLanguagePresent(v) /\ here) =>
                            other.score <= report.score

\* a record with a detected language: POL-013 is pass and the score is
\* higher than that of the same record without the language
C18_Witness ==
    /\ StaticDone
    /\ ClaimLanguagePresent(extracted.site_primary_language)
    /\ \E it \in ClaimItems("POL-013") : it.status = "pass"
    /\ StaticReport(ClaimWithLanguage(None)).score < report.score

\* the strict requirements: rule id and the field read
ClaimStrict ==
    {<<"CMP-001", "company_name">>, <<"CMP-002", "registration_number">>,
     <<"CMP-003", "legal_address">>, <<"CMP-005", "merchant_outlet_location">>,
     <<"CTC-001", "support_email">>, <<"CTC-003", "physical_address">>,
     <<"CTC-004", "has_contact_page">>,
     <<"POL-001", "has_terms_conditions">>, <<"POL-002", "has_privacy_policy">>,
     <<"POL-003", "has_refund_policy">>, <<"POL-004", "has_cancellation_policy">>,
     <<"POL-005", "has_payment_policy">>,
     <<"PRD-001", "has_product_description">>,
     <<"PRD-002", "prices_in_purchase_currency">>,
     <<"CHK-001", "shows_final_price">>,
     <<"CHK-003", "has_terms_agreement_checkbox">>}

\* the soft requirements: rule id and the field read
ClaimSoft ==
    {<<"CMP-004", "vat_number">>, <<"CMP-006", "has_license_info">>,
     <<"CTC-002", "phone_number">>,
     <<"POL-006", "policies_accessible_from_all_pages">>,
     <<"POL-007", "policy_mentions_service_conditions">>,
     <<"POL-008", "policy_mentions_cancellation_terms">>,
     <<"POL-009", "policy_mentions_refund_terms">>,
     <<"POL-010", "policy_mentions_user_restrictions">>,
     <<"POL-011", "policy_mentions_company_name">>,
     <<"PRD-003", "all_fees_disclosed">>,
     <<"PRD-004", "transparent_purchase_process">>,
     <<"PRD-005", "payment_methods_mentioned">>,
     <<"CHK-002", "shows_merchant_location_at_checkout">>,
     <<"RCP-001", "has_receipt_info">>, <<"MOB-001", "has_mobile_responsive">>}

\* presence of a field value: a non-empty text, a true flag, a non-empty list
ClaimPresent(f, v) ==
    IF f \in BoolFields THEN v = TRUE
    ELSE IF f \in StringFields THEN v # None /\ v # Some("")
    ELSE v # <<>>

C20_RefundPeriodPrerequisite ==
    StaticDone =>
        LET d == extracted
            evaluated == d.has_refund_policy /\ d.refund_period_days # None
            language == ClaimLanguagePresent(d.site_primary_language)
        IN  /\ Cardinality(ClaimItems("POL-012")) = IF evaluated THEN 1 ELSE 0
            /\ evaluated =>
                  \A it \in ClaimItems("POL-012") :
                      it.status = IF d.refund_period_days[1] >= 14
                                  THEN "pass" ELSE "warning"
            /\ section_results["3"][2] =
                  11 + (IF evaluated THEN 1 ELSE 0)
                     + (IF language THEN 1 ELSE 0)
            /\ ~d.has_refund_policy =>
                  \A it \in ClaimItems("POL-003") : it.status = "fail"

\* no refund policy but a refund period of 13 days: POL-003 fails and there
\* is no POL-012 item
C20_Witness ==
    /\ StaticDone
    /\ ~extracted.has_refund_policy
    /\ extracted.refund_period_days = Some(13)
    /\ ClaimItems("POL-012") = {}
    /\ \E it \in ClaimItems("POL-003") : it.status = "fail"

\* a refund policy with a period of 13 days: POL-012 is a warning
C20_WitnessEvaluated ==
    /\ StaticDone
    /\ extracted.has_refund_policy
    /\ extracted.refund_period_days = Some(13)
    /\ \E it \in ClaimItems("POL-012") : it.status = "warning"

\* the items of the report that carry the label of section n
ClaimSectionItems(n) ==
    {i \in 1..Len(report.checklist) :
        report.checklist[i].section = ClaimSectionLabel[n]}

RECURSIVE ClaimSumWithout7(_, _)
\* the sum of weight x passed/total over the sections 1..n other than 7
ClaimSumWithout7(checklist, n) ==
    IF n = 0 THEN <<0, 1>>
    ELSE LET acc == ClaimSumWithout7(checklist, n - 1)
             c   == ClaimCounts(checklist, n)
         IN  IF n = 7 THEN acc
             ELSE <<acc[1] * c[2] + ClaimWeight[n] * c[1] * acc[2],
                    acc[2] * c[2]>>

\* C21: section 7 has exactly one item in every static report, UPD-001 with
\* status info, the same whatever the record; a section without scorable
\* items counts as (1,1), and the score is the rounded sum of the other
\* seven sections plus the full weight 5 of section 7.
C21_Section7FullWeight ==
    StaticDone =>
        /\ Cardinality(ClaimSectionItems(7)) = 1
        /\ \A i \in ClaimSectionItems(7) :
              /\ report.checklist[i].rule_id = "UPD-001"
              /\ report.checklist[i].status = "info"
              /\ report.checklist[i]
                    \in {it \in {StaticChecklist(SiteContentExtraction)[j] :
                                   j \in 1..Len(StaticChecklist(SiteContentExtraction))} :
                            it.rule_id = "UPD-001"}
              /\ _count_results(<<report.checklist[i]>>) = <<1, 1>>
        /\ section_results["7"] = <<1, 1>>
        /\ LET rest == ClaimSumWithout7(report.checklist, 8)
           IN  2 * Abs(report.score * rest[2] - (rest[1] + 5 * rest[2]))
                   <= rest[2]

\* a record other than the defaults, with some and not all of the other
\* sections' weight
C21_Witness ==
    /\ StaticDone
    /\ extracted # SiteContentExtraction
    /\ Cardinality(ClaimSectionItems(7)) = 1
    /\ section_results["7"] = <<1, 1>>
    /\ report.score > 5
    /\ report.score < 100

\* has_terms_conditions is false and every other field of the record is
\* populated, the refund period being at least 14 days
ClaimOnlyTermsMissing(d) ==
    /\ ~d.has_terms_conditions
    /\ \A f \in (StringFields \cup BoolFields) \ {"has_terms_conditions"} :
          ClaimPresent(f, d[f])
    /\ d.payment_methods_mentioned # <<>>
    /\ d.refund_period_days # None
    /\ d.refund_period_days[1] >= 14

\* C23: for a record with has_terms_conditions false and every other field
\* populated (refund period at least 14 days), section 3 has 12 passes of
\* 13 scorable items, the score is round(75 + 25 x 12/13) = 98, and the
\* status is NEEDS_REVIEW because one item, POL-001, has status fail.
C23_TermsMissing ==
    (StaticDone /\ ClaimOnlyTermsMissing(extracted)) =>
        /\ section_results["3"] = <<12, 13>>
        /\ \A n \in {1, 2, 4, 5, 6, 7, 8} :
              section_results[SectionIds[n]][1]
                  = section_results[SectionIds[n]][2]
        /\ 2 * Abs(13 * report.score - (13 * 75 + 25 * 12)) <= 13
        /\ report.score = 98
        /\ {report.checklist[i].rule_id :
               i \in {j \in 1..Len(report.checklist) :
                         report.checklist[j].status = "fail"}} = {"POL-001"}
        /\ report.status = "NEEDS_REVIEW"

C23_Witness ==
    /\ StaticDone
    /\ ClaimOnlyTermsMissing(extracted)
    /\ report.score = 98
    /\ report.status = "NEEDS_REVIEW"

\* C24: the company_name of a static report is the company_name of the
\* extraction record when that is a non-empty text, and "Unknown" when it is
\* null or empty.
C24_CompanyName ==
    StaticDone =>
        /\ extracted.company_name \in {None, Some("")} =>
              report.company_name = "Unknown"
        /\ extracted.company_name \notin {None, Some("")} =>
              Some(report.company_name) = extracted.company_name
        /\ report.company_name # ""

\* an empty company name reported as Unknown
C24_Witness ==
    /\ StaticDone
    /\ extracted.company_name = Some("")
    /\ report.company_name = "Unknown"

\* a company name handed through
C24_WitnessNamed ==
    /\ StaticDone
    /\ extracted.company_name = Some("Acme Ltd")
    /\ report.company_name = "Acme Ltd"

\* the rule ids of a static checklist in traversal order
ClaimRuleOrder ==
    <<"CMP-001", "CMP-002", "CMP-003", "CMP-004", "CMP-005", "CMP-006",
      "CTC-001", "CTC-002", "CTC-003", "CTC-004",
      "POL-001", "POL-002", "POL-003", "POL-004", "POL-005", "POL-006",
      "POL-007", "POL-008", "POL-009", "POL-010", "POL-011", "POL-012",
      "POL-013",
      "PRD-001", "PRD-002", "PRD-003", "PRD-004", "PRD-005",
      "CHK-001", "CHK-002", "CHK-003",
      "RCP-001", "RCP-002", "UPD-001", "MOB-001">>

\* the number of the section whose label the item carries
ClaimSectionOf(it) == CHOOSE n \in 1..8 : ClaimSectionLabel[n] = it.section

\* the position of a rule id in the traversal order
ClaimPosition(id) == CHOOSE k \in 1..Len(ClaimRuleOrder) : ClaimRuleOrder[k] = id

\* C25: a static checklist lists its items section by section in the order 1
\* to 8, in a fixed order of rule ids (the traversal order, POL-012 left out
\* when it is not evaluated), with pairwise distinct rule ids; a dynamic
\* checklist has one item per rule, in the order of the rules, with the
\* rule's id, section and item label.
C25_ChecklistOrder ==
    /\ StaticDone =>
          LET c == report.checklist
          IN  /\ \A i \in 1..Len(c) :
                    /\ c[i].section \in {ClaimSectionLabel[n] : n \in 1..8}
                    /\ c[i].rule_id \in {ClaimRuleOrder[k] :
                                            k \in 1..Len(ClaimRuleOrder)}
              /\ \A i, j \in 1..Len(c) :
                    i < j =>
                        /\ ClaimSectionOf(c[i]) <= ClaimSectionOf(c[j])
                        /\ ClaimPosition(c[i].rule_id)
                              < ClaimPosition(c[j].rule_id)
              /\ {c[i].rule_id : i \in 1..Len(c)} \cup {"POL-012"}
                    = {ClaimRuleOrder[k] : k \in 1..Len(ClaimRuleOrder)}
              /\ \A n \in 1..8 : \E i \in 1..Len(c) : ClaimSectionOf(c[i]) = n
    /\ DynamicDone =>
          /\ Len(report.checklist) = Len(rules)
          /\ \A i \in 1..Len(rules) :
                /\ report.checklist[i].rule_id = rules[i].rule_id
                /\ report.checklist[i].section = rules[i].section
                /\ report.checklist[i].item = rules[i].item

\* a static checklist of all 35 items
C25_Witness ==
    /\ StaticDone
    /\ Len(report.checklist) = 35
    /\ report.checklist[22].rule_id = "POL-012"
    /\ report.checklist[35].rule_id = "MOB-001"

\* a dynamic checklist of several rules
C25_WitnessDynamic ==
    /\ DynamicDone
    /\ Len(rules) = MaxRules
    /\ Len(report.checklist) = MaxRules
    /\ report.checklist[MaxRules].rule_id = rules[MaxRules].rule_id

-----------------------------------------------------------------------------
(***************************************************************************)
(* POST /api/v1/compliance/check: check_rate_limit, crawl, analyze_site,   *)
(* insert.  Requests run concurrently and interleave at their awaits.      *)
(***************************************************************************)
\* the merchants of the portal
ClientIds == {"c1", "c2"}

\* the records the analysis of a /check request may be made from
CheckedRecords == {PopulatedIn({}), PopulatedIn(DOMAIN SiteContentExtraction)}

\* the rows of the client created at or after today_start
ReportsToday(client_id) ==
    {rec \in compliance_reports :
        rec.client_id = client_id /\ rec.created_at >= today}

\* the request r with its position and HTTP status changed
CheckAt(r, position, http) ==
    [checks EXCEPT ![r].pc = position, ![r].status = http]

\* a request for the client arrives
V1CheckArrive ==
    /\ Len(checks) < MaxChecks
    /\ \E c \in ClientIds :
          checks' = Append(checks, [client_id |-> c, pc |-> "rate_limit",
                                    status |-> 0, report |-> NoReport])
    /\ UNCHANGED <<engine_vars, json_request, json_response,
                   compliance_reports, today, client_policies, widgets,
                   policy_seq, widget_response>>

\* check_rate_limit: count the client's rows of today; 429 if there is one
V1CheckRateLimit(r) ==
    /\ checks[r].pc = "rate_limit"
    /\ LET count == Cardinality(ReportsToday(checks[r].client_id))
       IN  IF count >= 1
           THEN checks' = CheckAt(r, "done", 429)
           ELSE checks' = CheckAt(r, "crawl", 0)
    /\ UNCHANGED <<engine_vars, json_request, json_response,
                   compliance_reports, today, client_policies, widgets,
                   policy_seq, widget_response>>

\* crawl_page returns the page text
V1CheckCrawl(r) ==
    /\ checks[r].pc = "crawl"
    /\ checks' = CheckAt(r, "analyze", 0)
    /\ UNCHANGED <<engine_vars, json_request, json_response,
                   compliance_reports, today, client_policies, widgets,
                   policy_seq, widget_response>>

\* crawl_page raises: 400
V1CheckCrawlFail(r) ==
    /\ checks[r].pc = "crawl"
    /\ checks' = CheckAt(r, "done", 400)
    /\ UNCHANGED <<engine_vars, json_request, json_response,
                   compliance_reports, today, client_policies, widgets,
                   policy_seq, widget_response>>

\* analyze_site returns its report
V1CheckAnalyze(r) ==
    /\ checks[r].pc = "analyze"
    /\ \E d \in CheckedRecords :
          checks' = [checks EXCEPT ![r].pc = "commit",
                                   ![r].report = StaticReport(d)]
    /\ UNCHANGED <<engine_vars, json_request, json_response,
                   compliance_reports, today, client_policies, widgets,
                   policy_seq, widget_response>>

\* analyze_site raises: 500
V1CheckAnalyzeFail(r) ==
    /\ checks[r].pc = "analyze"
    /\ checks' = CheckAt(r, "done", 500)
    /\ UNCHANGED <<engine_vars, json_request, json_response,
                   compliance_reports, today, client_policies, widgets,
                   policy_seq, widget_response>>

\* the row is inserted and committed; created_at is the server's now
V1CheckCommit(r) ==
    /\ checks[r].pc = "commit"
    /\ compliance_reports' = compliance_reports \cup
          {[id |-> r, client_id |-> checks[r].client_id,
            score |-> checks[r].report.score,
            status |-> checks[r].report.status,
            created_at |-> today]}
    /\ checks' = CheckAt(r, "done", 200)
    /\ UNCHANGED <<engine_vars, json_request, json_response, today,
                   client_policies, widgets, policy_seq, widget_response>>

\* midnight UTC passes
Midnight ==
    /\ today < MaxDay
    /\ today' = today + 1
    /\ UNCHANGED <<engine_vars, json_request, json_response,
                   compliance_reports, checks, client_policies, widgets,
                   policy_seq, widget_response>>

InitRateLimit == Idle /\ ApiIdle

NextRateLimit ==
    \/ V1CheckArrive
    \/ \E r \in DOMAIN checks : V1CheckRateLimit(r)
    \/ \E r \in DOMAIN checks : V1CheckCrawl(r)
    \/ \E r \in DOMAIN checks : V1CheckCrawlFail(r)
    \/ \E r \in DOMAIN checks : V1CheckAnalyze(r)
    \/ \E r \in DOMAIN checks : V1CheckAnalyzeFail(r)
    \/ \E r \in DOMAIN checks : V1CheckCommit(r)
    \/ Midnight

SpecRateLimit == InitRateLimit /\ [][NextRateLimit]_vars

-----------------------------------------------------------------------------
(***************************************************************************)
(* Properties of the /api/v1 check                                         *)
(***************************************************************************)
\* C26: at most one compliance report row is stored per client_id per UTC
\* day, for any interleaving of /check requests, requests in progress when
\* the first row was stored included.
C26_OnePerClientPerDay ==
    \A c \in ClientIds, day \in 0..MaxDay :
        Cardinality({rec \in compliance_reports :
                        rec.client_id = c /\ rec.created_at = day}) <= 1

-----------------------------------------------------------------------------
(***************************************************************************)
(* Policies (generate, update, approve, delete) and the widget endpoints.  *)
(* One handler is one step; a widget response is delivered before the     *)
(* next request is handled.                                                *)
(***************************************************************************)
\* the policy types requested here, with their display names
POLICY_TYPES ==
    [t \in {"terms", "privacy"} |->
        IF t = "terms" THEN "Terms & Conditions" ELSE "Privacy Policy"]

\* the policy lists of a generate request
PolicyLists ==
    UNION {[1..n -> DOMAIN POLICY_TYPES] : n \in 1..MaxPolicies}

\* the token of the widget create_widget makes for a client
TokenOf(client_id) == <<"wt", client_id>>

\* the tokens the widget endpoint is asked for: those of the clients, the
\* one of a row that was switched off, and one of no row
Tokens == {TokenOf(c) : c \in ClientIds} \cup {<<"wt", "off">>, <<"wt", "none">>}

\* the rows selected by policy id and client id
PolicyRows(client_id, policy_id) ==
    {p \in client_policies : p.id = policy_id /\ p.client_id = client_id}

\* the rows selected for a widget, without the status condition
ApprovedPolicies_any(client_id) ==
    {p \in client_policies : p.client_id = client_id}

\* the rows selected for a widget: the client's approved policies
ApprovedPolicies(client_id) ==
    {p \in client_policies :
        p.client_id = client_id /\ p.status = "approved"}

\* the active widget rows of a token
ActiveWidgets(token) ==
    {w \in widgets : w.token = token /\ w.is_active}

\* what the widget endpoint returns for one row
WidgetItem(p) ==
    [type |-> p.policy_type, name |-> POLICY_TYPES[p.policy_type],
     html |-> p.content_html]

\* POST /generate: one draft row of version 1 per requested type
generate_policies ==
    /\ widget_response = <<>>
    /\ \E c \in ClientIds, types \in PolicyLists :
          /\ policy_seq + Len(types) <= MaxPolicies
          /\ client_policies' = client_policies \cup
                {[id |-> policy_seq + i, client_id |-> c,
                  policy_type |-> types[i], content_html |-> "generated",
                  version |-> 1, status |-> "draft", approved_at |-> None] :
                    i \in 1..Len(types)}
          /\ policy_seq' = policy_seq + Len(types)
    /\ UNCHANGED <<engine_vars, json_vars, rate_vars, widgets,
                   widget_response>>

\* PUT /{client_id}/{policy_id}: new text, version + 1
update_policy ==
    /\ widget_response = <<>>
    /\ \E c \in ClientIds, id \in 1..MaxPolicies :
          \E p \in PolicyRows(c, id) :
              /\ p.version < MaxVersion
              /\ client_policies' = (client_policies \ {p}) \cup
                    {[p EXCEPT !.content_html = "edited",
                               !.version = p.version + 1]}
    /\ UNCHANGED <<engine_vars, json_vars, rate_vars, widgets, policy_seq,
                   widget_response>>

\* POST /{client_id}/{policy_id}/approve
approve_policy ==
    /\ widget_response = <<>>
    /\ \E c \in ClientIds, id \in 1..MaxPolicies :
          \E p \in PolicyRows(c, id) :
              client_policies' = (client_policies \ {p}) \cup
                  {[p EXCEPT !.status = "approved",
                             !.approved_at = Some(today)]}
    /\ UNCHANGED <<engine_vars, json_vars, rate_vars, widgets, policy_seq,
                   widget_response>>

\* DELETE /{client_id}/{policy_id}
delete_policy ==
    /\ widget_response = <<>>
    /\ \E c \in ClientIds, id \in 1..MaxPolicies :
          \E p \in PolicyRows(c, id) :
              client_policies' = client_policies \ {p}
    /\ UNCHANGED <<engine_vars, json_vars, rate_vars, widgets, policy_seq,
                   widget_response>>

\* POST /create: a widget row for a client that has none
create_widget ==
    /\ widget_response = <<>>
    /\ \E c \in ClientIds :
          /\ {w \in widgets : w.client_id = c} = {}
          /\ widgets' = widgets \cup
                {[token |-> TokenOf(c), client_id |-> c, is_active |-> TRUE]}
    /\ UNCHANGED <<engine_vars, json_vars, rate_vars, client_policies,
                   policy_seq, widget_response>>

\* GET /{token}/policies: the response lists one element per selected row
get_widget_policies ==
    /\ widget_response = <<>>
    /\ \E token \in Tokens :
          widget_response' =
              [token |-> token,
               body  |-> IF ActiveWidgets(token) = {} THEN <<>>
                         ELSE LET widget == CHOOSE w \in ActiveWidgets(token) : TRUE
                                  rows == ApprovedPolicies(widget.client_id)
                              IN  [id \in {p.id : p \in rows} |->
                                      WidgetItem(CHOOSE p \in rows : p.id = id)]]
    /\ UNCHANGED <<engine_vars, json_vars, rate_vars, client_policies,
                   widgets, policy_seq>>

\* the response has gone out
WidgetDeliver ==
    /\ widget_response # <<>>
    /\ widget_response' = <<>>
    /\ UNCHANGED <<engine_vars, json_vars, rate_vars, client_policies,
                   widgets, policy_seq>>

\* empty tables but for one widget row that has been switched off
InitPolicies ==
    /\ Idle
    /\ json_request = <<>>
    /\ json_response = <<>>
    /\ compliance_reports = {}
    /\ checks = <<>>
    /\ today = 0
    /\ client_policies = {}
    /\ widgets = {[token |-> <<"wt", "off">>, client_id |-> "c2",
                   is_active |-> FALSE]}
    /\ policy_seq = 0
    /\ widget_response = <<>>

NextPolicies ==
    \/ generate_policies
    \/ update_policy
    \/ approve_policy
    \/ delete_policy
    \/ create_widget
    \/ get_widget_policies
    \/ WidgetDeliver

SpecPolicies == InitPolicies /\ [][NextPolicies]_vars

-----------------------------------------------------------------------------
(***************************************************************************)
(* Properties of the policies and the widget                               *)
(***************************************************************************)
\* C27: after any sequence of generate, update, approve and delete, the
\* widget policies endpoint returns, for an active token, exactly the
\* policies of the token's client whose status is approved, and an empty
\* list for an unknown or inactive token; a policy is approved only through
\* approve_policy, and a generated policy that was not edited has version 1.
C27_WidgetServesApproved ==
    /\ widget_response # <<>> =>
          LET owners == {w.client_id : w \in {x \in widgets :
                            x.token = widget_response.token /\ x.is_active}}
              served == {p \in client_policies :
                            p.client_id \in owners /\ p.status = "approved"}
          IN  /\ DOMAIN widget_response.body = {p.id : p \in served}
              /\ \A p \in served :
                    widget_response.body[p.id] =
                        [type |-> p.policy_type,
                         name |-> POLICY_TYPES[p.policy_type],
                         html |-> p.content_html]
    /\ \A p \in client_policies :
          /\ p.status \in {"draft", "approved"}
          /\ p.status = "approved" <=> p.approved_at # None
          /\ p.version = 1 <=> p.content_html = "generated"

\* the widget of a client serves its approved policy and not its draft
C27_Witness ==
    /\ widget_response # <<>>
    /\ widget_response.token = TokenOf("c1")
    /\ Cardinality(DOMAIN widget_response.body) = 1
    /\ \E p \in client_policies :
          /\ p.client_id = "c1"
          /\ p.status = "draft"
          /\ p.id \notin DOMAIN widget_response.body

\* the inactive token gets an empty list although its client has an
\* approved policy
C27_WitnessInactive ==
    /\ widget_response # <<>>
    /\ widget_response.token = <<"wt", "off">>
    /\ widget_response.body = <<>>
    /\ \E p \in client_policies : p.client_id = "c2" /\ p.status = "approved"

-----------------------------------------------------------------------------
(***************************************************************************)
(* Further properties of analyze_dynamic and analyze_site                  *)
(***************************************************************************)
\* the positions of the report's items that are not pass
ClaimUnmet ==
    {i \in 1..Len(report.checklist) : report.checklist[i].status # "pass"}

\* C28: a dynamic report is COMPLIANT iff the rule list is non-empty and
\* the item of every rule is pass; one unmet rule keeps the score below 100,
\* so no report with a fail or warning item is COMPLIANT.
C28_CompliantIffAllPass ==
    DynamicDone =>
        /\ report.status = "COMPLIANT" <=>
              (Len(rules) > 0 /\ Len(report.checklist) = Len(rules)
                  /\ ClaimUnmet = {})
        /\ ClaimUnmet # {} =>
              /\ report.score < 100
              /\ 100 * (Len(rules) - Cardinality(ClaimUnmet))
                    >= report.score * Len(rules)
        /\ (\E i \in 1..Len(report.checklist) :
               report.checklist[i].status \in {"fail", "warning"}) =>
              report.status # "COMPLIANT"

\* the longest rule list with every rule met
C28_Witness ==
    /\ DynamicDone
    /\ Len(rules) = MaxRules
    /\ ClaimUnmet = {}
    /\ report.score = 100
    /\ report.status = "COMPLIANT"

\* the longest rule list with one rule unmet
C28_WitnessOneUnmet ==
    /\ DynamicDone
    /\ Len(rules) = MaxRules
    /\ Cardinality(ClaimUnmet) = 1
    /\ report.score < 100
    /\ report.status = "NON-COMPLIANT"

\* the report has no item with status fail
ClaimNoFail ==
    \A i \in 1..Len(report.checklist) : report.checklist[i].status # "fail"

\* every strict field of the record is met
ClaimStrictMet(d) == \A f \in StrictFields : ClaimPresent(f, d[f])

\* the report's item of the refund period is a warning
ClaimShortRefund ==
    \E i \in 1..Len(report.checklist) :
        /\ report.checklist[i].rule_id = "POL-012"
        /\ report.checklist[i].status = "warning"

\* C29 as stated: a static report without a fail item is never
\* NON-COMPLIANT; with all strict requirements met the score is at least 50.
C29_Original ==
    StaticDone =>
        /\ ClaimNoFail =>
              report.status # "NON-COMPLIANT" /\ report.score >= 50
        /\ ClaimStrictMet(extracted) => report.score >= 50

\* C29, amended: a record with all strict requirements met has no fail
\* item; a static report without a fail item scores at least 49, and at
\* least 50, so that it is not NON-COMPLIANT, unless its refund-period item
\* (POL-012) is a warning.
C29_NoFailFloor ==
    StaticDone =>
        /\ ClaimStrictMet(extracted) <=> ClaimNoFail
        /\ ClaimNoFail =>
              /\ report.score >= 49
              /\ ~ClaimShortRefund =>
                    report.score >= 50 /\ report.status # "NON-COMPLIANT"

\* strict fields met, every soft field missing, a refund period of 13 days:
\* no fail item, 49 points, NON-COMPLIANT
C29_Witness ==
    /\ StaticDone
    /\ extracted = [PopulatedIn(StrictFields)
                       EXCEPT !.refund_period_days = Some(13)]
    /\ ClaimNoFail
    /\ ClaimShortRefund
    /\ report.score = 49
    /\ report.status = "NON-COMPLIANT"

\* the same record without a refund period: 50 points, NEEDS_REVIEW
C29_WitnessNoPeriod ==
    /\ StaticDone
    /\ extracted = PopulatedIn(StrictFields)
    /\ ClaimNoFail
    /\ report.score = 50
    /\ report.status = "NEEDS_REVIEW"

-----------------------------------------------------------------------------
(***************************************************************************)
(* POST /check-json: run_compliance_check_json                             *)
(*                                                                         *)
(* json_request holds the request being served with the outcome of its     *)
(* crawl, json_response the HTTP response.  The handler builds its own      *)
(* engine, whose steps are the actions of analyze_site and analyze_dynamic. *)
(***************************************************************************)
\* the values of ComplianceRequest.custom_rules: null or a list of rules
CustomRules == {None} \cup {Some(rs) : rs \in RuleLists}

\* the handler's test with null taken as the only value that is not a rule set
RoutesToDynamic_not_none(custom_rules) == custom_rules # None

\* if request.custom_rules: a list that is present and not empty
RoutesToDynamic(custom_rules) ==
    custom_rules # None /\ Len(custom_rules[1]) > 0

\* the response of the handler
JsonResponse(status_code, body) ==
    <<[status_code |-> status_code, body |-> body]>>

\* a request arrives; the engine of the request has made no call
CheckJsonReceive ==
    /\ json_request = <<>>
    /\ json_response = <<>>
    /\ pc = "idle"
    /\ \E custom_rules \in CustomRules :
          json_request' = <<[custom_rules |-> custom_rules,
                             crawled      |-> FALSE]>>
    /\ UNCHANGED <<json_response, engine_vars, rate_vars, policy_vars>>

\* step 1: crawl_page returns the text of the page
CheckJsonCrawl ==
    /\ json_request # <<>>
    /\ json_response = <<>>
    /\ ~json_request[1].crawled
    /\ json_request' = <<[json_request[1] EXCEPT !.crawled = TRUE]>>
    /\ UNCHANGED <<json_response, engine_vars, rate_vars, policy_vars>>

\* step 1: crawl_page raises, answered 400
CheckJsonCrawlFail ==
    /\ json_request # <<>>
    /\ json_response = <<>>
    /\ ~json_request[1].crawled
    /\ json_response' = JsonResponse(400, NoReport)
    /\ UNCHANGED <<json_request, engine_vars, rate_vars, policy_vars>>

\* step 2: the handler calls analyze_dynamic with the request's rules or
\* analyze_site, which run up to their extraction call (or, for
\* analyze_dynamic without rules, to the return)
CheckJsonAnalyze ==
    /\ json_request # <<>>
    /\ json_response = <<>>
    /\ json_request[1].crawled
    /\ IF RoutesToDynamic(json_request[1].custom_rules)
       THEN IF Len(json_request[1].custom_rules[1]) = 0
            THEN AnalyzeDynamicNoRules
            ELSE /\ AnalyzeDynamicCall
                 /\ rules' = json_request[1].custom_rules[1]
       ELSE AnalyzeSiteCall

\* the analysis returned: the report is the body of a 200
CheckJsonRespond ==
    /\ json_request # <<>>
    /\ json_response = <<>>
    /\ pc = "done"
    /\ json_response' = JsonResponse(200, report)
    /\ UNCHANGED <<json_request, engine_vars, rate_vars, policy_vars>>

\* the analysis raised: answered 500
CheckJsonError ==
    /\ json_request # <<>>
    /\ json_response = <<>>
    /\ pc = "raised"
    /\ json_response' = JsonResponse(500, NoReport)
    /\ UNCHANGED <<json_request, engine_vars, rate_vars, policy_vars>>

\* the response is sent; the handler and its engine are gone
CheckJsonFinish ==
    /\ json_response # <<>>
    /\ json_request' = <<>>
    /\ json_response' = <<>>
    /\ pc' = "idle"
    /\ mode' = "none"
    /\ extracted' = None
    /\ rules' = <<>>
    /\ section_results' = NoResults
    /\ report' = NoReport
    /\ llm_calls' = 0
    /\ llm_error' = FALSE
    /\ UNCHANGED <<rate_vars, policy_vars>>

InitCheckJson == Idle /\ ApiIdle

NextCheckJson ==
    \/ CheckJsonReceive
    \/ CheckJsonCrawl
    \/ CheckJsonCrawlFail
    \/ CheckJsonAnalyze
    \/ AnalyzeSiteReturn
    \/ AnalyzeSiteRaise
    \/ AnalyzeDynamicReturn
    \/ AnalyzeDynamicRaise
    \/ CheckJsonRespond
    \/ CheckJsonError
    \/ CheckJsonFinish

SpecCheckJson == InitCheckJson /\ [][NextCheckJson]_vars

-----------------------------------------------------------------------------
(***************************************************************************)
(* Properties of /check-json                                               *)
(***************************************************************************)
\* the handler has answered 200
ClaimJsonOk == json_response # <<>> /\ json_response[1].status_code = 200

\* C30: a 200 of /check-json carries the report of analyze_dynamic on the
\* request's rules exactly when custom_rules is a non-empty list; otherwise
\* (null or an empty list) it carries the report of analyze_site, made with
\* one extraction call and holding the full static checklist; the zero-rule
\* NEEDS_REVIEW report is never the body.
C30_Routing ==
    ClaimJsonOk =>
        LET custom_rules == json_request[1].custom_rules
            body         == json_response[1].body
            non_empty    == custom_rules # None /\ Len(custom_rules[1]) > 0
        IN  /\ (mode = "dynamic") <=> non_empty
            /\ (mode = "static") <=> ~non_empty
            /\ non_empty =>
                  /\ rules = custom_rules[1]
                  /\ Len(body.checklist) = Len(custom_rules[1])
                  /\ \A i \in 1..Len(body.checklist) :
                        body.checklist[i].rule_id = custom_rules[1][i].rule_id
            /\ ~non_empty =>
                  /\ llm_calls = 1
                  /\ body.checklist = StaticChecklist(extracted)
                  /\ body.company_name # "Dynamic Check"
            /\ ~(body.score = 0 /\ body.status = "NEEDS_REVIEW"
                    /\ body.checklist = <<>>)

\* a request with an empty custom_rules list answered with a static report
C30_Witness ==
    /\ ClaimJsonOk
    /\ json_request[1].custom_rules = Some(<<>>)
    /\ mode = "static"
    /\ llm_calls = 1
    /\ Len(json_response[1].body.checklist) >= 30

\* a request with rules answered with a dynamic report
C30_WitnessDynamic ==
    /\ ClaimJsonOk
    /\ json_request[1].custom_rules # None
    /\ Len(json_request[1].custom_rules[1]) = MaxRules
    /\ mode = "dynamic"
    /\ Len(json_response[1].body.checklist) = MaxRules

====
